---- MODULE Spec2Model ----
(***************************************************************************)
(* signal_bot.py: the tick store (MarketData), the signal strategy         *)
(* (compute_signal), the background listener (deriv_ws_listener), the      *)
(* snapshot fetcher (subscribe_and_fetch), the signal request              *)
(* (handle_signal_command) and the console loop (main_console).            *)
(*                                                                         *)
(* asyncio tasks switch only at an await, so every action below is the     *)
(* code between two awaits of one task.  Time is the integer clock `now`   *)
(* (time.time() in whole seconds).                                         *)
(***************************************************************************)
EXTENDS Integers, Sequences, FiniteSets, TLC

\* ------------------------------------------------------------------ bounds
\* Capacity of one history.  The program sets 500 (signal_bot.py line 34);
\* the model runs with a capacity scaled down to a size TLC can enumerate.
MAX_POINTS == 10
\* add_tick calls in one run (the log of the calls is kept to that length).
MaxRecords == 12
\* Logged ticks other than the plain one (BasicTick) in one run.
MaxVaried == 1
\* Ticks sent in a run of the feed with odd timestamps.
MaxStamped == 2
\* The clock stops here in the store and listener harnesses.
MaxNowSmall == 2
\* The console accepts commands up to this time.
MaxNow == 2
\* Ticks one fetch may collect.
MaxCollected == 1
\* Ticks one fetch may collect in the runs of the listener against a fetch.
MaxRaceCollected == 2
\* Last second at which a command with a long timeframe is given.
MaxLongNow == 10
\* compute_signal on its own: length of the price list, largest finite price,
\* largest fast_len and slow_len.
MaxSigLen == 4
MaxSigPrice == 3
MaxSigParam == 4

\* ------------------------------------------------------- Python values
\* A JSON / Python value as the code sees it: ty is its type, v its content.
\*   none          None (also: the key is absent and .get gives None)
\*   num           a finite number v
\*   nan, inf      float('nan'); float('inf') (v = 1) or float('-inf') (v = -1)
\*   numstr        the string that spells the number v, such as "1"
\*   str           a non-empty string that spells no number; v names it
\*   list          a non-empty list such as [1]: truthy, unhashable, no float
PNone == [ty |-> "none", v |-> 0]
PNum(n) == [ty |-> "num", v |-> n]
PNaN == [ty |-> "nan", v |-> 0]
PInf(s) == [ty |-> "inf", v |-> s]
PNumStr(n) == [ty |-> "numstr", v |-> n]
PStr(id) == [ty |-> "str", v |-> id]
PList == [ty |-> "list", v |-> 0]

\* The strings of the program: Deriv symbols and user names of pairs.
FrxEURUSD == PStr(1)
FrxGBPUSD == PStr(2)
FrxAUDUSD == PStr(3)
EURUSD_OTC == PStr(11)
GBPUSD_OTC == PStr(12)
AUDUSD_OTC == PStr(13)

\* bool(x), as `or` and `if` apply it.
Truthy(x) ==
    CASE x.ty = "none" -> FALSE
      [] x.ty = "num" -> x.v # 0
      [] OTHER -> TRUE

\* a or b
PyOr(a, b) == IF Truthy(a) THEN a ELSE b

\* A float: fin (the number v), nan, or inf (v = 1 or -1).
Fin(n) == [k |-> "fin", v |-> n]
NaN == [k |-> "nan", v |-> 0]
Inf(s) == [k |-> "inf", v |-> s]

\* float(x): the float, or the exception float raises.
PyFloat(x) ==
    CASE x.ty = "num" -> [exc |-> "none", val |-> Fin(x.v)]
      [] x.ty = "nan" -> [exc |-> "none", val |-> NaN]
      [] x.ty = "inf" -> [exc |-> "none", val |-> Inf(x.v)]
      [] x.ty = "numstr" -> [exc |-> "none", val |-> Fin(x.v)]
      [] x.ty = "str" -> [exc |-> "ValueError", val |-> NaN]
      [] OTHER -> [exc |-> "TypeError", val |-> NaN]

Max(a, b) == IF a >= b THEN a ELSE b
Min(a, b) == IF a <= b THEN a ELSE b

\* ------------------------------------------------------------ MarketData
\* deque.append on a deque(maxlen = MAX_POINTS): a full deque drops its
\* oldest entry.
DequeAppendNoEvict(d, x) == Append(d, x)
DequeAppendDropNewest(d, x) == IF Len(d) >= MAX_POINTS THEN d ELSE Append(d, x)
DequeAppend(d, x) ==
    IF Len(d) >= MAX_POINTS THEN Append(Tail(d), x) ELSE Append(d, x)

\* MarketData.ensure_symbol: tk is self.ticks, a dict from key to deque.
\* `symbol not in self.ticks` hashes the key: a list raises TypeError and
\* nothing is stored.  The key PNaN stands for the one nan object json.loads
\* gives, which the dict finds again by identity.
ensure_symbol(tk, symbol) ==
    IF symbol.ty = "list"
    THEN [exc |-> "TypeError", ticks |-> tk]
    ELSE [exc |-> "none",
          ticks |-> IF symbol \in DOMAIN tk
                    THEN tk
                    ELSE [k \in (DOMAIN tk) \cup {symbol} |->
                             IF k = symbol THEN <<>> ELSE tk[k]]]

\* MarketData.add_tick(symbol, price, ts) at time t; ts = PNone is ts=None.
\* Gives the exception raised, the new self.ticks and the tick appended.
\* The timestamp is stored as it was given, whatever it is.
add_tick(tk, symbol, price, ts, t) ==
    LET e == ensure_symbol(tk, symbol)
        stamp == IF ts.ty = "none" THEN PNum(t) ELSE ts
        f == PyFloat(price)
        tick == [ts |-> stamp, price |-> f.val]
    IN  IF e.exc # "none"
        THEN [exc |-> e.exc, ticks |-> e.ticks, tick |-> tick]
        ELSE IF f.exc # "none"
        THEN [exc |-> f.exc, ticks |-> e.ticks, tick |-> tick]
        ELSE [exc |-> "none",
              ticks |-> [e.ticks EXCEPT ![symbol] = DequeAppend(e.ticks[symbol], tick)],
              tick |-> tick]

\* `ts >= cutoff` raises TypeError unless ts is a number (cutoff is a float).
TsOrdered(ts) == ts.ty \in {"num", "nan", "inf"}
\* ts >= cutoff for a number ts: false for nan.
TsAtLeast(ts, cutoff) ==
    CASE ts.ty = "num" -> ts.v >= cutoff
      [] ts.ty = "inf" -> ts.v > 0
      [] OTHER -> FALSE

RECURSIVE PricesFromAt(_, _, _)
\* The comprehension of line 67 from the i-th entry of d on.
PricesFromAt(d, i, cutoff) ==
    IF i > Len(d) THEN <<>>
    ELSE IF TsAtLeast(d[i].ts, cutoff)
         THEN <<d[i].price>> \o PricesFromAt(d, i + 1, cutoff)
         ELSE PricesFromAt(d, i + 1, cutoff)

\* Line 67 with `ts > cutoff` for `ts >= cutoff` (timestamps are whole seconds).
PricesFromStrict(d, cutoff) == PricesFromAt(d, 1, cutoff + 1)

\* [p for (t, p) in d if t >= cutoff], every t being a number
PricesFrom(d, cutoff) == PricesFromAt(d, 1, cutoff)

\* MarketData.get_prices_since(symbol, since_seconds) at time t: the
\* exception raised, the prices returned and the new self.ticks
\* (ensure_symbol may add the key).  The comprehension of line 67 compares
\* every stored timestamp with the cutoff: one text or list among them raises
\* TypeError.
get_prices_since(tk, symbol, since_seconds, t) ==
    LET e == ensure_symbol(tk, symbol)
        cutoff == t - since_seconds
    IN  IF e.exc # "none"
        THEN [exc |-> e.exc, prices |-> <<>>, ticks |-> e.ticks]
        ELSE IF \E i \in 1..Len(e.ticks[symbol]) : ~TsOrdered(e.ticks[symbol][i].ts)
        THEN [exc |-> "TypeError", prices |-> <<>>, ticks |-> e.ticks]
        ELSE [exc |-> "none", prices |-> PricesFrom(e.ticks[symbol], cutoff),
              ticks |-> e.ticks]

\* ------------------------------------------------------ compute_signal
\* x + y on floats.
FAdd(x, y) ==
    CASE x.k = "nan" \/ y.k = "nan" -> NaN
      [] x.k = "inf" /\ y.k = "inf" -> IF x.v = y.v THEN x ELSE NaN
      [] x.k = "inf" -> x
      [] y.k = "inf" -> y
      [] OTHER -> Fin(x.v + y.v)

\* -x
FNeg(x) == IF x.k = "nan" THEN NaN ELSE [k |-> x.k, v |-> 0 - x.v]

RECURSIVE FSumFrom(_, _)
\* ps[i] + ... + ps[Len(ps)] for finite floats ps.
FSumFrom(ps, i) == IF i > Len(ps) THEN 0 ELSE ps[i].v + FSumFrom(ps, i + 1)
\* The sum of the floats ps, added up with FAdd: a nan among them gives nan,
\* so do +inf and -inf together; an inf alone stays; else the exact sum.
FSum(ps) ==
    IF \E i \in 1..Len(ps) : ps[i].k = "nan" THEN NaN
    ELSE IF \E i, j \in 1..Len(ps) : ps[i].k = "inf" /\ ps[j].k = "inf" /\ ps[i].v # ps[j].v
    THEN NaN
    ELSE IF \E i \in 1..Len(ps) : ps[i].k = "inf"
    THEN ps[CHOOSE i \in 1..Len(ps) : ps[i].k = "inf"]
    ELSE Fin(FSumFrom(ps, 1))

\* A quotient num / den of a float by a positive integer, kept exact.
\* statistics.mean(ps): sum over count; a nan or inf among ps decides it.
Mean(ps) == [num |-> FSum(ps), den |-> Len(ps)]

\* Sign of a float that is not nan: -1, 0, 1.
FSign(x) ==
    IF x.k = "inf" THEN x.v
    ELSE IF x.v > 0 THEN 1 ELSE IF x.v < 0 THEN 0 - 1 ELSE 0

\* a > b for quotients a, b (false when either is nan).
QGreater(a, b) ==
    CASE a.num.k = "nan" \/ b.num.k = "nan" -> FALSE
      [] a.num.k = "inf" /\ b.num.k = "inf" -> a.num.v > b.num.v
      [] a.num.k = "inf" -> a.num.v > 0
      [] b.num.k = "inf" -> b.num.v < 0
      [] OTHER -> a.num.v * b.den > b.num.v * a.den

\* prices[-n:]
SliceLast(ps, n) ==
    IF n > 0
    THEN IF n >= Len(ps) THEN ps ELSE SubSeq(ps, Len(ps) - n + 1, Len(ps))
    ELSE IF 0 - n >= Len(ps) THEN <<>> ELSE SubSeq(ps, 1 - n, Len(ps))

\* compute_signal with `min` for `max` in the length test of line 80.
compute_signal_min(prices, fast_len, slow_len) ==
    IF Len(prices) < Min(fast_len, slow_len) \/ Len(prices) < 3
    THEN [signal |-> "HOLD", info |-> "not enough data"]
    ELSE LET fast_ma == Mean(SliceLast(prices, fast_len))
             slow_ma == IF Len(prices) >= slow_len
                        THEN Mean(SliceLast(prices, slow_len))
                        ELSE Mean(prices)
             slope == [num |-> FAdd(prices[Len(prices)], FNeg(prices[Len(prices) - 2])),
                       den |-> 2]
             zero == [num |-> Fin(0), den |-> 1]
         IN  IF QGreater(fast_ma, slow_ma) /\ QGreater(slope, zero)
             THEN [signal |-> "BUY", info |-> "ma"]
             ELSE IF QGreater(slow_ma, fast_ma) /\ QGreater(zero, slope)
                  THEN [signal |-> "SELL", info |-> "ma"]
                  ELSE [signal |-> "HOLD", info |-> "ma"]

\* compute_signal with the slope of line 86 taken as prices[-3] - prices[-1].
compute_signal_slope(prices, fast_len, slow_len) ==
    IF Len(prices) < Max(fast_len, slow_len) \/ Len(prices) < 3
    THEN [signal |-> "HOLD", info |-> "not enough data"]
    ELSE LET fast_ma == Mean(SliceLast(prices, fast_len))
             slow_ma == IF Len(prices) >= slow_len
                        THEN Mean(SliceLast(prices, slow_len))
                        ELSE Mean(prices)
             slope == [num |-> FAdd(prices[Len(prices) - 2], FNeg(prices[Len(prices)])),
                       den |-> 2]
             zero == [num |-> Fin(0), den |-> 1]
         IN  IF QGreater(fast_ma, slow_ma) /\ QGreater(slope, zero)
             THEN [signal |-> "BUY", info |-> "ma"]
             ELSE IF QGreater(slow_ma, fast_ma) /\ QGreater(zero, slope)
                  THEN [signal |-> "SELL", info |-> "ma"]
                  ELSE [signal |-> "HOLD", info |-> "ma"]

\* compute_signal(prices, fast_len, slow_len), called with lengths >= 1.
\* info is "not enough data" or "ma" (the text with fast_ma, slow_ma, slope).
compute_signal(prices, fast_len, slow_len) ==
    IF Len(prices) < Max(fast_len, slow_len) \/ Len(prices) < 3
    THEN [signal |-> "HOLD", info |-> "not enough data"]
    ELSE LET fast_ma == Mean(SliceLast(prices, fast_len))
             slow_ma == IF Len(prices) >= slow_len
                        THEN Mean(SliceLast(prices, slow_len))
                        ELSE Mean(prices)
             slope == [num |-> FAdd(prices[Len(prices)], FNeg(prices[Len(prices) - 2])),
                       den |-> 2]
             zero == [num |-> Fin(0), den |-> 1]
         IN  IF QGreater(fast_ma, slow_ma) /\ QGreater(slope, zero)
             THEN [signal |-> "BUY", info |-> "ma"]
             ELSE IF QGreater(slow_ma, fast_ma) /\ QGreater(zero, slope)
                  THEN [signal |-> "SELL", info |-> "ma"]
                  ELSE [signal |-> "HOLD", info |-> "ma"]

\* ------------------------------------------------------ parse_duration
\* A duration text s: mag is s[:-1] (PNumStr(n) when it spells the integer n,
\* PStr otherwise) and suf is the last character ("" for the empty text).
Dur(mag, suf) == [mag |-> mag, suf |-> suf]

\* int(text)
PyInt(text) ==
    IF text.ty = "numstr" THEN [exc |-> "none", val |-> text.v]
    ELSE [exc |-> "ValueError", val |-> 0]

\* parse_duration(s): the seconds, or the ValueError.
parse_duration(s) ==
    LET n == PyInt(s.mag)
    IN  CASE s.suf = "m" -> [exc |-> n.exc, val |-> n.val * 60]
          [] s.suf = "s" -> [exc |-> n.exc, val |-> n.val]
          [] s.suf = "h" -> [exc |-> n.exc, val |-> n.val * 3600]
          [] OTHER -> [exc |-> "ValueError", val |-> 0]

\* SYMBOL_MAP as the module defines it (lines 26-31).
SYMBOL_MAP ==
    [k \in {EURUSD_OTC, GBPUSD_OTC, AUDUSD_OTC} |->
        CASE k = EURUSD_OTC -> FrxEURUSD
          [] k = GBPUSD_OTC -> FrxGBPUSD
          [] OTHER -> FrxAUDUSD]

\* format_symbol: map.get(user_sym, user_sym), map being the global SYMBOL_MAP
\* as the `add` command has left it.
format_symbol(map, user_sym) ==
    IF user_sym \in DOMAIN map THEN map[user_sym] ELSE user_sym

\* --------------------------------------------------------------- state
VARIABLES
    ticks,      \* market.ticks: key -> deque of [ts, price]
    now,        \* time.time()
    log,        \* every tick appended by add_tick, as [key, tick], in call order
    lPc,        \* listener task: "connecting", "streaming", "closing", "faulted", "cancelled"
    lCause,     \* why the listener task ended: "none", "connect", "conn", "message", "cancel"
    cPc,        \* main_console: "prompt", "busy", "crashed", "exited"
    req,        \* the signal request being served (or last served)
    res,        \* what handle_signal_command last returned
    fetch,      \* the subscribe_and_fetch call of the request
    sig,        \* a compute_signal call on its own: arguments and result
    symmap      \* the global SYMBOL_MAP: user name of a pair -> Deriv symbol

vars == <<ticks, now, log, lPc, lCause, cPc, req, res, fetch, sig, symmap>>
storeVars == <<ticks, now, log>>
listenerVars == <<lPc, lCause>>
consoleVars == <<cPc, req, res, fetch>>

\* The plain tick of the runs: price 1.0 with server epoch 0.
BasicTick == [ts |-> PNum(0), price |-> Fin(1)]

\* The logged ticks that are not BasicTick under frxEURUSD.
CountVaried(lg) ==
    Cardinality({i \in 1..Len(lg) : ~(lg[i].key = FrxEURUSD /\ lg[i].tick = BasicTick)})

\* The run's bound on recorded ticks: the provider sends no more than
\* MaxRecords ticks, of which `varied` differ from BasicTick.
LogOK(lg, varied) == Len(lg) <= MaxRecords /\ CountVaried(lg) <= varied

\* req.enough: the lookback count met max(10, tf); req.lst: whether the
\* listener task had ended by an exception when the command was given.
NoRequest == [sym |-> PNone, tf |-> 0, enough |-> FALSE, lst |-> "none"]
NoResult == [signal |-> "none", reason |-> "none"]
NoFetch == [pc |-> "idle", conn |-> "none", opened |-> 0, sub |-> 0, forget |-> 0,
            start |-> 0, wait |-> 0, dur |-> 0, collected |-> <<>>,
            cause |-> "none"]
NoCall == [prices |-> <<>>, fast_len |-> 0, slow_len |-> 0, called |-> FALSE,
           out |-> [signal |-> "none", info |-> "none"]]

Init ==
    /\ ticks = <<>>
    /\ now = 0
    /\ log = <<>>
    /\ lPc = "connecting"
    /\ lCause = "none"
    /\ cPc = "prompt"
    /\ req = NoRequest
    /\ res = NoResult
    /\ fetch = NoFetch
    /\ sig = NoCall
    /\ symmap = SYMBOL_MAP

\* ------------------------------------------------- the store on its own
\* A caller's market.add_tick(symbol, price, ts=ts).  An exception leaves
\* the caller with what ensure_symbol already did.
Record(symbol, price, ts, varied) ==
    LET r == add_tick(ticks, symbol, price, ts, now)
    IN  /\ ticks' = r.ticks
        /\ log' = IF r.exc = "none" THEN Append(log, [key |-> symbol, tick |-> r.tick])
                  ELSE log
        /\ LogOK(log', varied)
        /\ UNCHANGED <<now, sig, symmap, listenerVars, consoleVars>>

\* A caller's market.get_prices_since(symbol, since_seconds).
Query(symbol, since_seconds) ==
    LET r == get_prices_since(ticks, symbol, since_seconds, now)
    IN  /\ ticks' = r.ticks
        /\ UNCHANGED <<now, sig, symmap, log, listenerVars, consoleVars>>

\* A second passes.  A receive under asyncio.wait_for never waits past its
\* timeout; outside a receive the runs stop the clock at `limit`.
AdvanceTime(limit) ==
    /\ now < (IF fetch.pc = "recv" THEN fetch.wait + fetch.dur ELSE limit)
    /\ now' = now + 1
    /\ UNCHANGED <<ticks, log, sig, symmap, listenerVars, consoleVars>>

\* ------------------------------------------------------ inbound messages
\* A text received on a connection, by what json.loads makes of it:
\*   garbage    json.loads raises
\*   int, list  the JSON is a number; a list without the string "tick"
\*   dict       an object without the key 'tick' (a subscription ack, ...)
\*   tickval    an object whose 'tick' is not an object
\*   tick       an object whose 'tick' is an object: symbol, quote, price, bid,
\*              ask, epoch are its fields (PNone: absent), echo is
\*              data['echo_req']['subscribe'] (PNone: no echo_req)
Other(shape) ==
    [shape |-> shape, symbol |-> PNone, quote |-> PNone, price |-> PNone,
     bid |-> PNone, ask |-> PNone, epoch |-> PNone, echo |-> PNone]
TickMsg(symbol, quote, price, bid, ask, epoch, echo) ==
    [shape |-> "tick", symbol |-> symbol, quote |-> quote, price |-> price,
     bid |-> bid, ask |-> ask, epoch |-> epoch, echo |-> echo]

\* ------------------------------------------------------ deriv_ws_listener
\* One pass of the listener's loop body on message m at time t (lines
\* 106-116): the exception that leaves the loop ("none": the loop goes on),
\* the new market.ticks and the ticks add_tick appended.
ListenerBody(m, tk, t) ==
    LET quiet == [exc |-> "none", ticks |-> tk, logged |-> <<>>]
        symbol == PyOr(PyOr(m.symbol, m.quote), m.echo)
        price == PyOr(PyOr(PyOr(m.quote, m.price), m.bid), m.ask)
        r == add_tick(tk, symbol, price, m.epoch, t)
    IN  CASE m.shape = "garbage" -> quiet
          [] m.shape = "int" -> [quiet EXCEPT !.exc = "TypeError"]
          [] m.shape = "list" -> quiet
          [] m.shape = "dict" -> quiet
          [] m.shape = "tickval" -> [quiet EXCEPT !.exc = "AttributeError"]
          [] OTHER ->
               IF Truthy(symbol) /\ price.ty # "none"
               THEN [exc |-> r.exc, ticks |-> r.ticks,
                     logged |-> IF r.exc = "none"
                                THEN <<[key |-> symbol, tick |-> r.tick]>>
                                ELSE <<>>]
               ELSE quiet

Alive == cPc \in {"prompt", "busy"}

\* What an exception in the listener task does to main_console, which
\* started it with asyncio.create_task and never awaits it: nothing.
TaskFaultCrash(c) == "crashed"
TaskFault(c) == c

\* websockets.connect succeeds: the listener enters its loop.
ListenerConnect ==
    /\ Alive /\ lPc = "connecting"
    /\ lPc' = "streaming"
    /\ UNCHANGED <<storeVars, sig, symmap, lCause, consoleVars>>

\* websockets.connect raises: the task ends with the exception.
ListenerConnectFault ==
    /\ Alive /\ lPc = "connecting"
    /\ lPc' = "faulted" /\ lCause' = "connect"
    /\ cPc' = TaskFault(cPc)
    /\ UNCHANGED <<storeVars, sig, symmap, req, res, fetch>>

\* ws.recv() returns m and the loop body runs on it.  An exception leaves
\* the loop for __aexit__ of the `async with` of line 95.
ListenerRecv(m, varied) ==
    LET r == ListenerBody(m, ticks, now)
    IN  /\ Alive /\ lPc = "streaming"
        /\ ticks' = r.ticks
        /\ log' = log \o r.logged
        /\ LogOK(log', varied)
        /\ IF r.exc = "none"
           THEN UNCHANGED <<lPc, lCause, cPc>>
           ELSE lPc' = "closing" /\ lCause' = "message" /\ cPc' = cPc
        /\ UNCHANGED <<now, sig, symmap, req, res, fetch>>

\* ws.recv() raises (the connection is lost): the exception leaves the loop
\* for __aexit__.
ListenerConnFault ==
    /\ Alive /\ lPc = "streaming"
    /\ lPc' = "closing" /\ lCause' = "conn"
    /\ UNCHANGED <<storeVars, sig, symmap, consoleVars>>

\* __aexit__ of the listener's connection returns: the task ends with the
\* exception that left the loop.
ListenerAExit ==
    /\ Alive /\ lPc = "closing"
    /\ lPc' = "faulted"
    /\ cPc' = TaskFault(cPc)
    /\ UNCHANGED <<storeVars, sig, symmap, lCause, req, res, fetch>>

\* ---------------------------------------------------- subscribe_and_fetch
\* The loop body of subscribe_and_fetch on message m for `symbol` at time t
\* (lines 137-144): the exception raised, the new market.ticks, what was
\* appended to `collected` and what add_tick appended.
FetchBody(m, symbol, tk, t) ==
    LET quiet == [exc |-> "none", ticks |-> tk, got |-> <<>>, logged |-> <<>>]
        price == PyOr(m.quote, m.price)
        f == PyFloat(price)
        epoch == IF m.epoch.ty = "none" THEN PNum(t) ELSE m.epoch
        r == add_tick(tk, symbol, price, epoch, t)
    IN  CASE m.shape = "garbage" -> [quiet EXCEPT !.exc = "JSONDecodeError"]
          [] m.shape = "int" -> [quiet EXCEPT !.exc = "TypeError"]
          [] m.shape = "list" -> quiet
          [] m.shape = "dict" -> quiet
          [] m.shape = "tickval" -> [quiet EXCEPT !.exc = "AttributeError"]
          [] OTHER ->
               IF f.exc # "none"
               THEN [quiet EXCEPT !.exc = f.exc]
               ELSE [exc |-> "none", ticks |-> r.ticks,
                     got |-> <<[ts |-> epoch, price |-> f.val]>>,
                     logged |-> <<[key |-> symbol, tick |-> r.tick]>>]

\* `while time.time() - start < duration_seconds` (line 135), evaluated at
\* time t: the next receive starts now, or the loop is left for the forget.
LoopCheck(f, t) ==
    IF t - f.start < f.dur
    THEN [f EXCEPT !.pc = "recv", !.wait = t]
    ELSE [f EXCEPT !.pc = "forget", !.cause = "budget"]

\* __aexit__ of `async with websockets.connect(url) as ws`: the connection
\* is closed however the body was left.
AExitLeak(conn) == conn
AExit(conn) == "closed"

\* The body of the `async with` is left with exception `exc` at an await.
Leave(f, exc) == [f EXCEPT !.pc = "aexit", !.cause = exc]

FetchConnect ==
    /\ cPc = "busy" /\ fetch.pc = "connecting"
    /\ fetch' = [fetch EXCEPT !.pc = "subscribing", !.conn = "open", !.opened = @ + 1]
    /\ UNCHANGED <<storeVars, sig, symmap, listenerVars, cPc, req, res>>

\* await ws.send(subscribe) is done; start = time.time(); first loop test.
FetchSubscribe ==
    /\ cPc = "busy" /\ fetch.pc = "subscribing"
    /\ fetch' = LoopCheck([fetch EXCEPT !.sub = @ + 1, !.start = now], now)
    /\ UNCHANGED <<storeVars, sig, symmap, listenerVars, cPc, req, res>>

\* The send of the subscribe raises.
FetchSubscribeFault ==
    /\ cPc = "busy" /\ fetch.pc = "subscribing"
    /\ fetch' = Leave(fetch, "send")
    /\ UNCHANGED <<storeVars, sig, symmap, listenerVars, cPc, req, res>>

\* A message arrives before the receive's timeout; the body runs on it and
\* the loop condition is tested again.
\* `cap` bounds the ticks the run lets one fetch collect.
FetchRecvCap(m, varied, cap) ==
    /\ cPc = "busy" /\ fetch.pc = "recv"
    /\ now - fetch.wait < fetch.dur
    /\ \E r \in {FetchBody(m, req.sym, ticks, now)} :
          \E f1 \in {[fetch EXCEPT !.collected = @ \o r.got]} :
             /\ Len(f1.collected) <= cap
             /\ LogOK(log \o r.logged, varied)
             /\ ticks' = r.ticks
             /\ log' = log \o r.logged
             /\ fetch' = IF r.exc = "none" THEN LoopCheck(f1, now) ELSE Leave(f1, r.exc)
    /\ UNCHANGED <<now, sig, symmap, listenerVars, cPc, req, res>>

FetchRecv(m, varied) == FetchRecvCap(m, varied, MaxCollected)

\* asyncio.wait_for(ws.recv(), timeout=duration_seconds) raises TimeoutError.
FetchTimeout ==
    /\ cPc = "busy" /\ fetch.pc = "recv"
    /\ now - fetch.wait >= fetch.dur
    /\ fetch' = Leave(fetch, "TimeoutError")
    /\ UNCHANGED <<storeVars, sig, symmap, listenerVars, cPc, req, res>>

\* ws.recv() raises (the connection is lost).
FetchRecvFault ==
    /\ cPc = "busy" /\ fetch.pc = "recv"
    /\ fetch' = Leave(fetch, "recv")
    /\ UNCHANGED <<storeVars, sig, symmap, listenerVars, cPc, req, res>>

\* await ws.send({"forget": req}) is done: the body ends normally.
FetchForget ==
    /\ cPc = "busy" /\ fetch.pc = "forget"
    /\ fetch' = [fetch EXCEPT !.pc = "aexit", !.forget = @ + 1, !.cause = "none"]
    /\ UNCHANGED <<storeVars, sig, symmap, listenerVars, cPc, req, res>>

\* The send of the forget raises.
FetchForgetFault ==
    /\ cPc = "busy" /\ fetch.pc = "forget"
    /\ fetch' = Leave(fetch, "send")
    /\ UNCHANGED <<storeVars, sig, symmap, listenerVars, cPc, req, res>>

\* ------------------------------------------------- handle_signal_command
Failed == [signal |-> "HOLD", reason |-> "failed to retrieve data"]
NoRecent == [signal |-> "HOLD", reason |-> "no recent prices"]

\* len(prices) < max(10, tf_seconds // 1) (line 162)
NeedFetchUpTo(n, tf) == n <= Max(10, tf)
NeedFetch(n, tf) == n < Max(10, tf)

\* Lines 174-189 reading the lookback window tf_seconds * 3 again at line 174.
SignalTailLookback(tk, sym, tf, t) ==
    LET w == get_prices_since(tk, sym, tf * 3, t)
        c == compute_signal(w.prices, Max(3, tf \div 6), Max(8, tf \div 2))
    IN  [exc |-> w.exc, ticks |-> w.ticks,
         res |-> IF w.prices = <<>> THEN NoRecent
                 ELSE [signal |-> c.signal, reason |-> c.info]]

\* Lines 174-189 at time t: the strict window, the short cut on an empty
\* window, compute_signal.  reason carries the 'reason' of a short cut or the
\* 'info' of compute_signal.  exc is the exception of line 174, which no
\* try encloses; res means nothing then.
SignalTail(tk, sym, tf, t) ==
    LET w == get_prices_since(tk, sym, tf, t)
        c == compute_signal(w.prices, Max(3, tf \div 6), Max(8, tf \div 2))
    IN  [exc |-> w.exc, ticks |-> w.ticks,
         res |-> IF w.prices = <<>> THEN NoRecent
                 ELSE [signal |-> c.signal, reason |-> c.info]]

\* `except Exception as e` around the fetch (lines 165-170): what the
\* handler returns when subscribe_and_fetch raised `exc`.
OnFetchErrorReraise(exc) == [raised |-> TRUE, res |-> NoResult]
OnFetchError(exc) == [raised |-> FALSE, res |-> Failed]

\* finally of main_console, and quit: listener_task.cancel() unless done.
CancelListener ==
    IF lPc \in {"connecting", "streaming", "closing"}
    THEN lPc' = "cancelled" /\ lCause' = "cancel"
    ELSE UNCHANGED <<lPc, lCause>>

\* The call is over: its locals start and the receive's deadline are gone.
Ended(f) == [f EXCEPT !.start = 0, !.wait = 0, !.dur = 0]

\* The fetch raised `exc` and the exception reaches handle_signal_command.
FetchRaised(f, exc) ==
    LET h == OnFetchError(exc)
    IN  /\ fetch' = Ended([f EXCEPT !.pc = "raised", !.cause = exc])
        /\ IF h.raised
           THEN cPc' = "crashed" /\ res' = res /\ CancelListener
           ELSE cPc' = "prompt" /\ res' = h.res /\ UNCHANGED <<lPc, lCause>>
        /\ UNCHANGED <<storeVars, sig, symmap, req>>

\* websockets.connect raises: nothing was opened.
FetchConnectFault ==
    /\ cPc = "busy" /\ fetch.pc = "connecting"
    /\ FetchRaised(fetch, "connect")

\* __aexit__ has closed the connection.  After an exception the handler's
\* except clause runs; after a normal end the fetch returns `collected` and
\* the handler re-reads the lookback window (line 167, inside the try: an
\* exception of the read is caught like one of the fetch) and goes on to
\* line 174, outside the try.
FetchExit ==
    /\ cPc = "busy" /\ fetch.pc = "aexit"
    /\ \E f1 \in {[fetch EXCEPT !.conn = AExit(@)]} :
       IF fetch.cause # "none"
       THEN FetchRaised(f1, fetch.cause)
       ELSE \E again \in {get_prices_since(ticks, req.sym, req.tf * 3, now)} :
            \E tail \in {SignalTail(again.ticks, req.sym, req.tf, now)} :
            \E h \in {OnFetchError(again.exc)} :
              /\ fetch' = Ended([f1 EXCEPT !.pc = "returned"])
              /\ IF again.exc # "none"
                 THEN /\ ticks' = again.ticks
                      /\ IF h.raised
                         THEN cPc' = "crashed" /\ res' = res /\ CancelListener
                         ELSE /\ cPc' = "prompt" /\ res' = h.res
                              /\ UNCHANGED <<lPc, lCause>>
                 ELSE /\ ticks' = tail.ticks
                      /\ IF tail.exc # "none"
                         THEN cPc' = "crashed" /\ res' = res /\ CancelListener
                         ELSE /\ cPc' = "prompt" /\ res' = tail.res
                              /\ UNCHANGED <<lPc, lCause>>
              /\ UNCHANGED <<now, sig, symmap, log, req>>

\* ------------------------------------------------------------ main_console
\* The line `signal <pair> timeframe=<timeframe> expiration=<expiration>`:
\* handle_signal_command up to its first await, or to its return.
\* `limit` is the time up to which the run gives commands.
CmdSignalUntil(pair, timeframe, expiration, limit) ==
    LET deriv_sym == format_symbol(symmap, pair)
        tf == parse_duration(timeframe)
        ex == parse_duration(expiration)
        tf_seconds == tf.val
        lookback == tf_seconds * 3
        first == get_prices_since(ticks, deriv_sym, lookback, now)
        need == NeedFetch(Len(first.prices), tf_seconds)
        tail == SignalTail(first.ticks, deriv_sym, tf_seconds, now)
    IN  /\ cPc = "prompt"
        /\ now <= limit
        /\ IF tf.exc # "none" \/ ex.exc # "none"
           THEN \* the ValueError leaves main_console through its finally
                /\ cPc' = "crashed"
                /\ CancelListener
                /\ UNCHANGED <<storeVars, sig, symmap, req, res, fetch>>
           ELSE IF first.exc # "none" \/ (~need /\ tail.exc # "none")
           THEN \* the TypeError of line 161 or 174, which no try encloses
                /\ cPc' = "crashed"
                /\ CancelListener
                /\ ticks' = first.ticks
                /\ UNCHANGED <<now, log, sig, symmap, req, res, fetch>>
           ELSE /\ req' = [sym |-> deriv_sym, tf |-> tf_seconds,
                           enough |-> Len(first.prices) >= Max(10, tf_seconds),
                           lst |-> IF lPc = "faulted" THEN "faulted" ELSE "alive"]
                /\ IF need
                   THEN /\ ticks' = first.ticks
                        /\ fetch' = [NoFetch EXCEPT !.pc = "connecting",
                                       !.dur = Min(10, Max(5, tf_seconds))]
                        /\ cPc' = "busy"
                        /\ res' = NoResult
                   ELSE /\ ticks' = tail.ticks
                        /\ fetch' = NoFetch
                        /\ res' = tail.res
                        /\ cPc' = "prompt"
                /\ UNCHANGED <<now, sig, symmap, log, listenerVars>>

CmdSignal(pair, timeframe, expiration) ==
    CmdSignalUntil(pair, timeframe, expiration, MaxNow)

\* The line `add <pair> <deriv_symbol>` (lines 214-217):
\* SYMBOL_MAP[pair] = deriv_symbol.
CmdAdd(pair, deriv_symbol) ==
    /\ cPc = "prompt"
    /\ symmap' = [k \in (DOMAIN symmap) \cup {pair} |->
                     IF k = pair THEN deriv_symbol ELSE symmap[k]]
    /\ UNCHANGED <<storeVars, sig, listenerVars, consoleVars>>

\* The line `quit` or `exit`.
CmdQuit ==
    /\ cPc = "prompt"
    /\ cPc' = "exited"
    /\ CancelListener
    /\ UNCHANGED <<storeVars, sig, symmap, req, res, fetch>>

\* ------------------------------------------------------------- harnesses
\* The calls of the harness: <<symbol, price, ts>> of add_tick, and
\* <<symbol, since_seconds>> of get_prices_since.
StoreCalls ==
    { <<FrxEURUSD, PNum(1), PNum(0)>>,     \* appends BasicTick
      <<FrxEURUSD, PNum(2), PNum(0)>>,
      <<FrxEURUSD, PNumStr(2), PNum(0)>>,
      <<FrxEURUSD, PNum(1), PNone>>,       \* ts=None: stamped with time.time()
      <<FrxEURUSD, PNum(1), PNum(1)>>,
      <<FrxEURUSD, PNaN, PNum(0)>>,
      <<FrxEURUSD, PInf(1), PNum(0)>>,
      <<FrxEURUSD, PStr(99), PNum(0)>>,    \* float("abc") raises ValueError
      <<FrxEURUSD, PNone, PNum(0)>>,       \* float(None) raises TypeError
      <<FrxGBPUSD, PNum(1), PNum(0)>>,
      <<FrxGBPUSD, PStr(99), PNum(0)>>,
      <<FrxEURUSD, PNum(1), PNaN>>,        \* timestamps that are no finite number
      <<FrxEURUSD, PNum(1), PInf(1)>>,
      <<FrxEURUSD, PNum(1), PNumStr(5)>>,
      <<FrxEURUSD, PNum(1), PList>>,
      <<PList, PNum(1), PNum(0)>> }        \* a key that cannot be hashed
StoreQueries == ({FrxEURUSD, FrxGBPUSD} \X {0, 1, 100}) \cup {<<PList, 0>>}

StoreNext ==
    \/ \E c \in StoreCalls : Record(c[1], c[2], c[3], MaxVaried)
    \/ \E q \in StoreQueries : Query(q[1], q[2])
    \/ AdvanceTime(MaxNowSmall)

SpecStore == Init /\ [][StoreNext]_vars

\* The messages of the runs.
BasicMsg == TickMsg(FrxEURUSD, PNum(1), PNone, PNone, PNone, PNum(0), PNone)
ListenerMsgs ==
    { BasicMsg,
      Other("garbage"), Other("int"), Other("list"), Other("dict"), Other("tickval"),
      TickMsg(FrxEURUSD, PNum(2), PNone, PNone, PNone, PNone, PNone),
      TickMsg(FrxEURUSD, PNaN, PNone, PNone, PNone, PNum(0), PNone),
      TickMsg(FrxEURUSD, PInf(1), PNone, PNone, PNone, PNum(0), PNone),
      TickMsg(FrxEURUSD, PNumStr(2), PNone, PNone, PNone, PNum(0), PNone),
      TickMsg(FrxEURUSD, PStr(99), PNone, PNone, PNone, PNum(0), PNone),
      TickMsg(FrxEURUSD, PNone, PNone, PNum(2), PNone, PNum(0), PNone),
      TickMsg(FrxEURUSD, PNone, PNone, PNone, PNone, PNum(0), PNone),
      TickMsg(FrxEURUSD, PNum(0), PNone, PNone, PNone, PNum(0), PNone),
      TickMsg(PNone, PNum(2), PNone, PNone, PNone, PNum(0), PNone),
      TickMsg(PNone, PNone, PNum(2), PNone, PNone, PNum(0), PNum(1)),
      TickMsg(PNone, PNone, PNum(2), PNone, PNone, PNum(0), PNone),
      TickMsg(FrxEURUSD, PList, PNum(2), PNone, PNone, PNum(0), PNone),
      TickMsg(PNone, PList, PNone, PNone, PNone, PNum(0), PNone),
      TickMsg(FrxEURUSD, PNum(1), PNone, PNone, PNone, PNaN, PNone),
      TickMsg(FrxEURUSD, PNum(1), PNone, PNone, PNone, PNumStr(5), PNone),
      TickMsg(FrxEURUSD, PNum(1), PNone, PNone, PNone, PList, PNone) }

FeedNext ==
    \/ ListenerConnect
    \/ ListenerConnectFault
    \/ \E m \in ListenerMsgs : ListenerRecv(m, MaxVaried)
    \/ ListenerConnFault
    \/ ListenerAExit
    \/ AdvanceTime(MaxNowSmall)

\* The listener and the store, with no console command.
SpecFeed == Init /\ [][FeedNext]_vars

\* compute_signal on its own: a call with arguments drawn from SigInputs.
SigValues == {Fin(v) : v \in 1..MaxSigPrice} \cup {NaN, Inf(1)}
SigLists == UNION {[1..n -> SigValues] : n \in 0..MaxSigLen}
SigInputs ==
    {[prices |-> p, fast_len |-> f, slow_len |-> sl, called |-> FALSE, out |-> NoCall.out] :
        p \in SigLists, f \in 0..MaxSigParam, sl \in 0..MaxSigParam}

InitSignal ==
    /\ ticks = <<>> /\ now = 0 /\ log = <<>>
    /\ lPc = "connecting" /\ lCause = "none"
    /\ cPc = "prompt" /\ req = NoRequest /\ res = NoResult /\ fetch = NoFetch
    /\ sig \in SigInputs
    /\ symmap = SYMBOL_MAP

\* The call returns.
CallSignal ==
    /\ ~sig.called
    /\ sig' = [sig EXCEPT !.called = TRUE,
                          !.out = compute_signal(sig.prices, sig.fast_len, sig.slow_len)]
    /\ UNCHANGED <<storeVars, symmap, listenerVars, consoleVars>>

SpecSignal == InitSignal /\ [][CallSignal]_vars

\* ------------------------------------------------------ the whole program
Pairs == {EURUSD_OTC}
Timeframes == {Dur(PNumStr(1), "s"), Dur(PNumStr(1), "x"), Dur(PStr(98), "s")}
Expirations == {Dur(PNumStr(2), "m"), Dur(PNumStr(2), "")}
\* The `add` lines of a run: a known pair is pointed at another symbol.  The
\* runs give them before the first `signal` line.
AddLines == {<<EURUSD_OTC, FrxGBPUSD>>}
\* The messages of a run of the whole program: those of ListenerMsgs that
\* record BasicTick or record nothing.  A fetch is sent no tick that would be
\* recorded as anything but BasicTick under frxEURUSD, so a fetch for a
\* re-pointed pair gets the other messages only.
SpecMsgs ==
    { m \in ListenerMsgs :
        /\ \A e \in {ListenerBody(m, <<>>, 1).logged, FetchBody(m, FrxEURUSD, <<>>, 1).logged} :
              e \in {<<>>, <<[key |-> FrxEURUSD, tick |-> BasicTick]>>} }

FetchStep ==
    \/ FetchConnect
    \/ FetchConnectFault
    \/ FetchSubscribe
    \/ FetchSubscribeFault
    \/ \E m \in SpecMsgs : FetchRecv(m, CountVaried(log))
    \/ FetchTimeout
    \/ FetchRecvFault
    \/ FetchForget
    \/ FetchForgetFault
    \/ FetchExit

Next ==
    \/ ListenerConnect
    \/ ListenerConnectFault
    \/ \E m \in SpecMsgs : ListenerRecv(m, MaxVaried)
    \/ ListenerConnFault
    \/ ListenerAExit
    \/ \E p \in Pairs, tf \in Timeframes, ex \in Expirations : CmdSignal(p, tf, ex)
    \/ \E a \in AddLines : req = NoRequest /\ CmdAdd(a[1], a[2])
    \/ CmdQuit
    \/ FetchStep
    \/ AdvanceTime(MaxNow)

Spec == Init /\ [][Next]_vars

\* The program with what its scheduling guarantees: an awaited connect,
\* send, receive (bounded by wait_for) or close comes to an end, and the
\* clock goes on.
FairSpec == Spec /\ WF_vars(FetchStep) /\ WF_vars(AdvanceTime(MaxNow))

\* The listener and one fetch writing the same instrument: the listener is
\* sent BasicMsg, the fetcher RaceMsg, and no connection fails.
RaceMsg == TickMsg(FrxEURUSD, PNum(2), PNone, PNone, PNone, PNum(0), PNone)
RaceNext ==
    \/ ListenerConnect
    \/ ListenerRecv(BasicMsg, MaxRecords)
    \/ CmdSignal(EURUSD_OTC, Dur(PNumStr(1), "s"), Dur(PNumStr(2), "m"))
    \/ FetchConnect
    \/ FetchSubscribe
    \/ FetchRecvCap(RaceMsg, MaxRecords, MaxRaceCollected)
    \/ FetchTimeout
    \/ FetchForget
    \/ FetchExit
    \/ AdvanceTime(MaxNowSmall)

SpecRace == Init /\ [][RaceNext]_vars

\* Requests with a timeframe above the capacity of a history: tf_seconds =
\* MAX_POINTS + 1 (the threshold max(10, tf_seconds) is above the capacity)
\* and 2 * MAX_POINTS + 2 (slow_len = tf_seconds // 2 is above it too).
LongTimeframes ==
    {Dur(PNumStr(MAX_POINTS + 1), "s"), Dur(PNumStr(2 * MAX_POINTS + 2), "s")}
LongNext ==
    \/ ListenerConnect
    \/ ListenerRecv(BasicMsg, MaxRecords)
    \/ \E tf \in LongTimeframes :
          CmdSignalUntil(EURUSD_OTC, tf, Dur(PNumStr(2), "m"), MaxLongNow)
    \/ FetchConnect
    \/ FetchSubscribe
    \/ \E m \in {RaceMsg, Other("dict")} : FetchRecvCap(m, MaxRecords, MaxCollected)
    \/ FetchTimeout
    \/ FetchForget
    \/ FetchExit
    \/ AdvanceTime(MaxLongNow)

SpecLong == Init /\ [][LongNext]_vars

\* The whole program on a feed whose ticks carry an 'epoch' that is no
\* number of seconds: a text and nan.  At most MaxStamped ticks are sent.
StampMsgs ==
    { TickMsg(FrxEURUSD, PNum(1), PNone, PNone, PNone, PNumStr(5), PNone),
      TickMsg(FrxEURUSD, PNum(1), PNone, PNone, PNone, PNaN, PNone) }
StampNext ==
    \/ ListenerConnect
    \/ \E m \in StampMsgs : ListenerRecv(m, MaxStamped)
    \/ \E tf \in Timeframes, ex \in Expirations : CmdSignal(EURUSD_OTC, tf, ex)
    \/ CmdQuit
    \/ FetchConnect
    \/ FetchSubscribe
    \/ \E m \in StampMsgs \cup {Other("dict")} : FetchRecv(m, MaxStamped)
    \/ FetchTimeout
    \/ FetchForget
    \/ FetchExit
    \/ AdvanceTime(MaxNowSmall)

SpecStamp == Init /\ [][StampNext]_vars

\* ================================================================ claims
RECURSIVE TicksOf(_, _)
\* The ticks add_tick appended under key k, in call order.
TicksOf(lg, k) ==
    IF lg = <<>> THEN <<>>
    ELSE IF Head(lg).key = k
         THEN <<Head(lg).tick>> \o TicksOf(Tail(lg), k)
         ELSE TicksOf(Tail(lg), k)

LastN(sq, n) == IF Len(sq) <= n THEN sq ELSE SubSeq(sq, Len(sq) - n + 1, Len(sq))
PricesOf(sq) == [i \in 1..Len(sq) |-> sq[i].price]
\* A window that covers every finite timestamp of the runs (all are >= 0).
LargeWindow == now + 1
\* Timestamp ts is a float at or after the cutoff (nan is after nothing).
AtOrAfter(ts, cutoff) ==
    \/ ts.ty = "num" /\ ts.v >= cutoff
    \/ ts.ty = "inf" /\ ts.v > 0
\* Every tick of history sq carries a float as its timestamp (a Tick).
FloatStamps(sq) == \A i \in 1..Len(sq) : sq[i].ts.ty \in {"num", "nan", "inf"}
IsVerdict(r) == r.signal \in {"BUY", "SELL", "HOLD"}

\* C1: a history never holds more than MAX_POINTS ticks: it is the
\* MAX_POINTS most recently appended ticks of its key, in the order they were
\* appended; and a query with a window covering every stored timestamp
\* returns the prices of exactly those ticks, in that order.
C1_BoundedFifo ==
    \A k \in DOMAIN ticks :
        /\ Len(ticks[k]) <= MAX_POINTS
        /\ ticks[k] = LastN(TicksOf(log, k), MAX_POINTS)
        /\ (\A i \in 1..Len(ticks[k]) : AtOrAfter(ticks[k][i].ts, now - LargeWindow))
              => /\ get_prices_since(ticks, k, LargeWindow, now).exc = "none"
                 /\ get_prices_since(ticks, k, LargeWindow, now).prices
                      = PricesOf(LastN(TicksOf(log, k), MAX_POINTS))

\* C1 witness: more than MAX_POINTS ticks were appended under a key, and the
\* evicted first one differs from the ticks that are left.
C1_Witness ==
    \E k \in DOMAIN ticks :
        /\ Len(TicksOf(log, k)) > MAX_POINTS
        /\ Head(TicksOf(log, k)) # BasicTick
        /\ \A i \in 1..Len(ticks[k]) : ticks[k][i] = BasicTick
        /\ Len(get_prices_since(ticks, k, LargeWindow, now).prices) = MAX_POINTS

\* C2: a fetch whose receive timed out ends by returning its collected
\* ticks, not by raising, with exactly one forget sent.
C2_TimeoutReturns ==
    (fetch.pc \in {"raised", "returned"} /\ fetch.cause = "TimeoutError")
        => (fetch.pc = "returned" /\ fetch.forget = 1)

\* C3: a fetch that sent its subscribe has sent a forget by the time its
\* connection is released, however the loop was left.
C3_ForgetBeforeRelease ==
    (fetch.sub >= 1 /\ fetch.conn = "closed") => fetch.forget >= 1

\* C4: when the error of a fetch reaches the caller, a forget was sent or
\* the connection is no longer open.
C4_NoErrorWhileOpen ==
    fetch.pc = "raised" => (fetch.forget >= 1 \/ fetch.conn # "open")

\* C4 witness: a subscribed fetch that had collected a tick raised, and its
\* connection is closed.
C4_Witness ==
    /\ fetch.pc = "raised" /\ fetch.sub = 1 /\ fetch.collected # <<>>
    /\ fetch.conn = "closed"

\* C5: whenever a fetch ends with an exception the request returns HOLD,
\* 'failed to retrieve data', and the console is back at its prompt.
C5_FetchErrorIsHold ==
    [][(fetch.pc # "raised" /\ fetch'.pc = "raised")
          => (res' = Failed /\ cPc' = "prompt")]_vars

\* C5 witness: a fetch that had written a tick to the store failed on a
\* receive, and the request returned the failure verdict.
C5_Witness ==
    /\ fetch.pc = "raised" /\ fetch.cause = "recv" /\ fetch.collected # <<>>
    /\ res = Failed /\ cPc = "prompt"

\* C6: a request whose lookback count met max(10, tf) opens no connection
\* and sends no subscribe and no forget.
C6_NoFetchWhenCached ==
    req.enough => (fetch.pc = "idle" /\ fetch.opened = 0 /\ fetch.sub = 0
                   /\ fetch.forget = 0)

\* C6 witness: a request was served from a cache of exactly max(10, tf) ticks.
C6_Witness ==
    /\ req.enough /\ IsVerdict(res) /\ cPc = "prompt"
    /\ Len(get_prices_since(ticks, req.sym, req.tf * 3, now).prices) = Max(10, req.tf)

\* C7: no command ends the process with an exception: main_console never
\* ends by an error of a signal command.
C7_NeverCrashes == cPc # "crashed"

\* C8: the listener task ends only by cancellation or a connection fault,
\* never because of a message it received.
C8_OnlyConnFaultOrCancel ==
    lPc \in {"closing", "faulted", "cancelled"} => lCause \in {"cancel", "conn", "connect"}

\* C9: a fault of the listener task changes nothing of the console, and a
\* request in flight while the listener is dead completes with a verdict.
C9_ListenerFaultIsolated ==
    /\ [][(lPc # "faulted" /\ lPc' = "faulted") => UNCHANGED <<cPc, req, res, fetch>>]_vars
    /\ []((lPc = "faulted" /\ cPc = "busy") => <>(cPc = "prompt" /\ IsVerdict(res)))

\* C9 witness: a request given after the listener died ran a fetch to its
\* normal end and returned a verdict.
C9_Witness ==
    /\ req.lst = "faulted" /\ fetch.pc = "returned"
    /\ cPc = "prompt" /\ IsVerdict(res)

\* The add_tick call the listener makes for m has a price that float() turns
\* into no finite number.
BadPrice(m) ==
    LET symbol == PyOr(PyOr(m.symbol, m.quote), m.echo)
        price == PyOr(PyOr(PyOr(m.quote, m.price), m.bid), m.ask)
    IN  /\ m.shape = "tick" /\ Truthy(symbol) /\ price.ty # "none"
        /\ (PyFloat(price).exc # "none" \/ PyFloat(price).val.k # "fin")

\* C10: an add_tick call with a non-finite or unparseable price leaves every
\* history as it was and the listener streaming.
C10_BadPriceRejected ==
    [][\A m \in ListenerMsgs :
          (BadPrice(m) /\ ListenerRecv(m, MaxVaried))
              => (ticks' = ticks /\ lPc' = "streaming")]_vars

\* ------------------------------------------------- compute_signal claims
AllFinite(p) == \A i \in 1..Len(p) : p[i].k = "fin"
StrictlyUp(p) == \A i \in 1..(Len(p) - 1) : p[i].v < p[i + 1].v
StrictlyDown(p) == \A i \in 1..(Len(p) - 1) : p[i].v > p[i + 1].v

RECURSIVE SumIdx(_, _, _)
\* p[lo] + ... + p[hi] for finite prices.
SumIdx(p, lo, hi) == IF lo > hi THEN 0 ELSE p[lo].v + SumIdx(p, lo + 1, hi)

\* C11: a call with fewer than max(fast_len, slow_len, 3) prices returns
\* HOLD, 'not enough data', whatever the prices are.
C11_ShortIsHold ==
    (sig.called /\ Len(sig.prices) < Max(Max(sig.fast_len, sig.slow_len), 3))
        => sig.out = [signal |-> "HOLD", info |-> "not enough data"]

\* C11 witness: three or more prices, one of them not finite, fewer than
\* slow_len, and the call returned.
C11_Witness ==
    /\ sig.called /\ Len(sig.prices) >= 3 /\ Len(sig.prices) < sig.slow_len
    /\ ~AllFinite(sig.prices)
    /\ sig.out.info = "not enough data"

\* C12 as stated: with fast_len < slow_len, a strictly increasing list of at
\* least slow_len prices gives BUY and a strictly decreasing one SELL (read
\* here for finite prices only, where it already fails).
C12_MonotoneAsStated ==
    (sig.called /\ sig.fast_len < sig.slow_len /\ Len(sig.prices) >= sig.slow_len
       /\ AllFinite(sig.prices))
        => /\ StrictlyUp(sig.prices) => sig.out.signal = "BUY"
           /\ StrictlyDown(sig.prices) => sig.out.signal = "SELL"

\* C12 amended: with 1 <= fast_len < slow_len, a strictly increasing list of
\* at least max(slow_len, 3) finite prices gives BUY and a strictly
\* decreasing one SELL.
C12_Monotone ==
    (sig.called /\ 1 <= sig.fast_len /\ sig.fast_len < sig.slow_len
       /\ Len(sig.prices) >= Max(sig.slow_len, 3) /\ AllFinite(sig.prices))
        => /\ StrictlyUp(sig.prices) => sig.out.signal = "BUY"
           /\ StrictlyDown(sig.prices) => sig.out.signal = "SELL"

\* C12 witness: a strictly decreasing list longer than slow_len gave SELL.
C12_Witness ==
    /\ sig.called /\ 1 <= sig.fast_len /\ sig.fast_len < sig.slow_len
    /\ Len(sig.prices) > sig.slow_len /\ Len(sig.prices) >= 3
    /\ AllFinite(sig.prices) /\ StrictlyDown(sig.prices)
    /\ sig.out.signal = "SELL"

\* C14: with lengths >= 1 and at least max(fast_len, slow_len, 3) finite
\* prices, the signal is BUY exactly when the mean of the last fast_len
\* prices exceeds the mean of the last slow_len prices and
\* prices[-1] > prices[-3], SELL exactly when both are the other way round,
\* and HOLD otherwise; a nan in the slow window gives HOLD.
C14_DecisionTable ==
    LET p == sig.prices
        n == Len(p)
        f == sig.fast_len
        sl == sig.slow_len
        fsum == SumIdx(p, n - f + 1, n)
        ssum == SumIdx(p, n - sl + 1, n)
        slope2 == p[n].v - p[n - 2].v
    IN  (sig.called /\ f >= 1 /\ sl >= 1 /\ n >= Max(Max(f, sl), 3))
          => /\ AllFinite(p) =>
                  sig.out.signal =
                     IF fsum * sl > ssum * f /\ slope2 > 0 THEN "BUY"
                     ELSE IF fsum * sl < ssum * f /\ slope2 < 0 THEN "SELL"
                     ELSE "HOLD"
             /\ (\E i \in (n - sl + 1)..n : p[i].k = "nan") => sig.out.signal = "HOLD"
             /\ sig.out.info = "ma"

\* C14 witness: the two means tie over different windows while the slope is
\* not zero, and the call gave HOLD.
C14_Witness ==
    LET p == sig.prices
        n == Len(p)
    IN  /\ sig.called /\ AllFinite(p) /\ n >= 3
        /\ 1 <= sig.fast_len /\ sig.fast_len < sig.slow_len /\ sig.slow_len <= n
        /\ SumIdx(p, n - sig.fast_len + 1, n) * sig.slow_len
             = SumIdx(p, n - sig.slow_len + 1, n) * sig.fast_len
        /\ p[n].v # p[n - 2].v
        /\ sig.out = [signal |-> "HOLD", info |-> "ma"]

\* ------------------------------------------------------------ the store
\* The history stored for k; none for a key never seen.
Stored(tk, k) == IF k \in DOMAIN tk THEN tk[k] ELSE <<>>
InWindow(sq, cutoff) == SelectSeq(sq, LAMBDA tick : AtOrAfter(tick.ts, cutoff))
QueryKeys == {FrxEURUSD, FrxGBPUSD, FrxAUDUSD}
QueryWindows == {0, 1, 100}

\* C13: on a history of ticks (each timestamp a float, nan and infinity
\* included) get_prices_since(k, w) raises nothing and returns the prices of
\* exactly the stored ticks of k with ts >= now - w, in stored order, the
\* empty list for a key never recorded; and the call leaves every stored
\* history as it was (a step that appends no tick changes no history).
C13_PricesSince ==
    /\ [](\A k \in QueryKeys : \A w \in QueryWindows :
            FloatStamps(Stored(ticks, k)) =>
              /\ get_prices_since(ticks, k, w, now).exc = "none"
              /\ get_prices_since(ticks, k, w, now).prices
                   = PricesOf(InWindow(Stored(ticks, k), now - w)))
    /\ [][(log' = log) =>
            /\ \A k \in DOMAIN ticks : k \in DOMAIN ticks' /\ ticks'[k] = ticks[k]
            /\ \A k \in DOMAIN ticks' : k \notin DOMAIN ticks => ticks'[k] = <<>>
            /\ \A k \in QueryKeys : \A w \in QueryWindows :
                  get_prices_since(ticks, k, w, now).ticks = ensure_symbol(ticks, k).ticks]_vars

\* C13 witness: a history whose timestamps go down (1 then 0), of which a
\* query keeps the first tick and not the second, and a key that was only
\* ever queried.
C13_Witness ==
    /\ FrxEURUSD \in DOMAIN ticks /\ Len(ticks[FrxEURUSD]) = 2
    /\ ticks[FrxEURUSD][1].ts = PNum(1) /\ ticks[FrxEURUSD][2].ts = PNum(0)
    /\ now = 1
    /\ get_prices_since(ticks, FrxEURUSD, 0, now).prices = <<ticks[FrxEURUSD][1].price>>
    /\ FrxGBPUSD \in DOMAIN ticks /\ ticks[FrxGBPUSD] = <<>> /\ TicksOf(log, FrxGBPUSD) = <<>>

\* ---------------------------------------------------------- the fetcher
\* C15: a receive of the fetcher never waits past duration_seconds counted
\* from the subscribe: while it waits, the clock is within start + duration.
C15_ReceiveWithinBudget ==
    fetch.pc = "recv" => now <= fetch.start + fetch.dur

\* --------------------------------------------------------- the listener
\* A tick message with no instrument identifier (no 'symbol', no echoed
\* request) or with no price field at all.
Incomplete(m) ==
    /\ m.shape = "tick"
    /\ \/ m.symbol.ty = "none" /\ m.echo.ty = "none"
       \/ m.quote.ty = "none" /\ m.price.ty = "none" /\ m.bid.ty = "none" /\ m.ask.ty = "none"

\* C16: a tick message that carries no instrument identifier, or no price,
\* is discarded: no add_tick call is made and every history stays as it was.
C16_IncompleteDiscarded ==
    [][\A m \in ListenerMsgs :
          (Incomplete(m) /\ ListenerRecv(m, MaxVaried))
              => (ticks' = ticks /\ log' = log)]_vars

\* ---------------------------------------------------- the signal request
\* The prices of the stored ticks of sym no older than tf seconds at time t.
StrictWindow(tk, sym, tf, t) == PricesOf(InWindow(Stored(tk, sym), t - tf))

\* A step that ends a signal request with a verdict computed from prices:
\* the command itself when no fetch was needed, or the return of the fetch.
AnswersRequest ==
    /\ (\E p \in Pairs, t \in Timeframes, e \in Expirations : CmdSignal(p, t, e)) \/ FetchExit
    /\ cPc' = "prompt" /\ IsVerdict(res') /\ res' # Failed

\* C17: the verdict of a signal request is computed from the strict window
\* (ticks of the last tf_seconds, read when the request is answered, after
\* any fetch), and is HOLD 'no recent prices' when that window is empty, also
\* when the lookback window met the threshold.
C17_StrictWindowDecides ==
    [][AnswersRequest =>
         LET strict == StrictWindow(ticks', req'.sym, req'.tf, now')
             c == compute_signal(strict, Max(3, req'.tf \div 6), Max(8, req'.tf \div 2))
         IN  res' = IF strict = <<>> THEN NoRecent
                    ELSE [signal |-> c.signal, reason |-> c.info]]_vars

\* C17 witness: the lookback window met the threshold, so no fetch was made,
\* the strict window was empty and the request returned 'no recent prices'.
C17_Witness ==
    /\ cPc = "prompt" /\ req.enough /\ fetch = NoFetch
    /\ StrictWindow(ticks, req.sym, req.tf, now) = <<>>
    /\ Len(get_prices_since(ticks, req.sym, req.tf * 3, now).prices) >= Max(10, req.tf)
    /\ res = NoRecent

\* ------------------------------------------- the listener against a fetch
RaceTick == [ts |-> PNum(0), price |-> Fin(2)]

\* C18: with the listener and a fetch appending to the same history in any
\* order, the history holds at most MAX_POINTS ticks and is exactly the last
\* MAX_POINTS of the ticks appended so far, in the order of the add_tick
\* calls: none lost, none twice, none out of place.
C18_InterleavedAppends ==
    \A k \in DOMAIN ticks :
        /\ Len(ticks[k]) <= MAX_POINTS
        /\ ticks[k] = LastN(TicksOf(log, k), MAX_POINTS)

\* C18 witness: more than MAX_POINTS appends, and in the history a tick of
\* the listener between two ticks of the fetch, after a tick of the listener.
C18_Witness ==
    /\ FrxEURUSD \in DOMAIN ticks
    /\ Len(TicksOf(log, FrxEURUSD)) > MAX_POINTS
    /\ \E h, i, j, l \in 1..Len(ticks[FrxEURUSD]) :
          /\ h < i /\ i < j /\ j < l
          /\ ticks[FrxEURUSD][h] = BasicTick
          /\ ticks[FrxEURUSD][i] = RaceTick
          /\ ticks[FrxEURUSD][j] = BasicTick
          /\ ticks[FrxEURUSD][l] = RaceTick

\* ------------------------------------------- timeframes above the capacity
\* C19: a request whose slow_len = max(8, tf_seconds // 2) is above
\* MAX_POINTS never answers BUY or SELL: every verdict is HOLD.
C19_LongTimeframeHolds ==
    (Max(8, req.tf \div 2) > MAX_POINTS /\ IsVerdict(res)) => res.signal = "HOLD"

\* C19 witness: such a request was answered 'not enough data' from a full
\* history, all of it in the strict window, that ends on a rise.
C19_Witness ==
    /\ Max(8, req.tf \div 2) > MAX_POINTS /\ cPc = "prompt"
    /\ res = [signal |-> "HOLD", reason |-> "not enough data"]
    /\ FrxEURUSD \in DOMAIN ticks
    /\ Len(StrictWindow(ticks, FrxEURUSD, req.tf, now)) = MAX_POINTS
    /\ ticks[FrxEURUSD][MAX_POINTS] = RaceTick
    /\ ticks[FrxEURUSD][MAX_POINTS - 2] = BasicTick

\* C20: a request with tf_seconds above MAX_POINTS always starts a fetch: the
\* lookback count is below max(10, tf_seconds) whatever the history holds.
C20_LongTimeframeFetches ==
    /\ [](req.tf > MAX_POINTS => (~req.enough /\ fetch.pc # "idle"))
    /\ [][\A tf \in LongTimeframes :
            (/\ parse_duration(tf).val > MAX_POINTS
             /\ CmdSignalUntil(EURUSD_OTC, tf, Dur(PNumStr(2), "m"), MaxLongNow))
                => (/\ cPc' = "busy" /\ fetch'.pc = "connecting"
                    /\ fetch'.sub = 0 /\ fetch'.conn = NoFetch.conn)]_vars

\* C20 witness: the history is full, all of it in the lookback window, an
\* earlier request has put a fetched tick in it, and the request starts a fetch.
C20_Witness ==
    /\ req.tf > MAX_POINTS /\ cPc = "busy" /\ fetch.pc = "connecting"
    /\ FrxEURUSD \in DOMAIN ticks
    /\ Len(TicksOf(log, FrxEURUSD)) > MAX_POINTS
    /\ Len(get_prices_since(ticks, FrxEURUSD, req.tf * 3, now).prices) = MAX_POINTS
    /\ \E i \in 1..MAX_POINTS : ticks[FrxEURUSD][i] = RaceTick

====
